---- MODULE Spec2Model ----
(***************************************************************************)
(* State-machine model of kart/drive_logic/logic.py:                       *)
(*   - SimpleColAvoidLogic (constructor, tic, get_end_of_arc,              *)
(*     _find_speed_from_distance, the two read accessors);                 *)
(*   - the generator expanding_indices.                                    *)
(* Lengths are integers on a grid.  A float is modelled by the exact       *)
(* real it stands for: the non-negative root of a rational, or NaN.        *)
(***************************************************************************)
EXTENDS Integers, Sequences, FiniteSets, TLC

VARIABLES
    col_avoid_pointmap,    \* self._data.col_avoid_pointmap, as seen by the last tic
    last_radius_index,     \* self.last_radius_index
    _current_turn_radius,  \* self._current_turn_radius
    _current_speed,        \* self._current_speed
    op,                    \* the operation that ran last
    tic_raised,            \* the last tic ended in the AssertionError of get_end_of_arc
    best_arc,              \* tic's local best_arc when the last tic ended
    best_distance,         \* tic's local best_distance when the last tic ended
    scanned,               \* arc indices handed to get_end_of_arc by the last tic, in order
    arc_ends,              \* per arc index, what get_end_of_arc returned in the last tic
    arc_queries,           \* per arc index, the positions queried in the last tic, in order
    prior_speed,           \* _current_speed when the last tic began
    prior_turn_radius,     \* _current_turn_radius when the last tic began
    ret,                   \* what the last accessor read since the last tic returned
    gen_start, gen_lower, gen_upper,   \* arguments of the running expanding_indices
    gen_i,                 \* its local i
    gen_out,               \* the indices it has yielded so far
    gen_done               \* it has left its loop

logic_vars == <<col_avoid_pointmap, last_radius_index, _current_turn_radius,
                _current_speed, op, tic_raised, best_arc, best_distance, scanned,
                arc_ends, arc_queries, prior_speed, prior_turn_radius, ret>>
gen_vars == <<gen_start, gen_lower, gen_upper, gen_i, gen_out, gen_done>>
vars == <<logic_vars, gen_vars>>

----------------------------------------------------------------------------
(* Bounds of the model. *)

\* largest number of points in an obstacle cloud
MaxObstacles == 2
\* expanding_indices: start_index ranges over 0..MaxStart
MaxStart == 5
\* expanding_indices: lower_bound in -MaxBound..0, upper_bound in 0..MaxBound
MaxBound == 3

----------------------------------------------------------------------------
(* Python values. *)

None == [none |-> TRUE]

Abs(n) == IF n < 0 THEN -n ELSE n
Max(a, b) == IF a >= b THEN a ELSE b

RECURSIVE GCD(_, _)
GCD(a, b) == IF b = 0 THEN a ELSE GCD(b, a % b)

\* a float: NaN, or the non-negative real whose square is num/den (in lowest terms)
NaN == [nan |-> TRUE]
Root(num, den) ==
    LET g == GCD(Abs(num), den)
    IN  [nan |-> FALSE, num |-> num \div g, den |-> den \div g]
Zero == Root(0, 1)

\* numpy.sqrt of the rational num/den (den > 0): nan for a negative argument
sqrt(num, den) == IF num < 0 THEN NaN ELSE Root(num, den)

\* float * positive integer
Times(v, k) == IF v.nan THEN NaN ELSE Root(v.num * k * k, v.den)

\* a position tuple held by a variable that may hold None
Some(pos) == [none |-> FALSE, pos |-> pos]

\* mathutils.Vector(pos) for a 2D position tuple
Vector(pos) == [none |-> FALSE, x |-> pos[1], y |-> pos[2]]

----------------------------------------------------------------------------
(* Collaborators imported by logic.py. *)

\* .const.SAFE_DISTANCE
SAFE_DISTANCE == 2
\* ..const.phys_const.DECELERATION_RATE
DECELERATION_RATE == 2

\* .turn_table.arcs: sharpest left, straight, sharpest right; each arc's
\* positions run outward from the kart, <<x, y>> with y the forward coordinate
turn_arcs ==
    [i \in 0..2 |->
        CASE i = 0 -> [radius |-> -5, positions |-> << <<-1, 0>>, <<-3, 3>>, <<-5, 5>> >>]
          [] i = 1 -> [radius |->  0, positions |-> << << 0, 1>>, << 0, 3>>, << 0, 5>> >>]
          [] i = 2 -> [radius |->  5, positions |-> << << 1, 1>>, << 3, 3>>, << 5, 5>> >>]]

NumArcs == Cardinality(DOMAIN turn_arcs)

\* points an obstacle cloud may hold: beside the kart, and near the second
\* and third position of each arc
ObstaclePoints ==
    { <<0, 0>>, <<-2, 0>>, <<2, 1>>,
      <<-3, 4>>, <<1, 3>>, <<3, 4>>,
      <<-5, 6>>, <<0, 6>>, <<5, 6>> }

\* the clouds of at most n points
RECURSIVE Clouds(_)
Clouds(n) ==
    IF n = 0 THEN {{}}
    ELSE LET smaller == Clouds(n - 1)
         IN  smaller \cup {c \cup {p} : c \in smaller, p \in ObstaclePoints}

\* the handles DriveData.col_avoid_pointmap may hold: a KDTree over a cloud, or
\* something that is no KDTree
PointMaps ==
    {[is_kdtree |-> TRUE, points |-> c] : c \in Clouds(MaxObstacles)}
    \cup {[is_kdtree |-> FALSE, points |-> {}]}

\* KDTree.query_ball_point(pos, r): the points of the tree within distance r of pos
query_ball_point(tree, pos, r) ==
    {p \in tree.points :
        (p[1] - pos[1]) * (p[1] - pos[1]) + (p[2] - pos[2]) * (p[2] - pos[2]) <= r * r}

----------------------------------------------------------------------------
(* SimpleColAvoidLogic.get_end_of_arc *)

\* line 125: Vector(last_safe_point) if last_safe_point is not None else None
to_vector(last_safe_point) ==
    IF last_safe_point.none THEN None ELSE Vector(last_safe_point.pos)

\* the loop over arc.positions from position k on, with the positions queried
\* so far in queries: the last safe position found, and every position queried
RECURSIVE arc_walk(_, _, _, _, _)
arc_walk(positions, k, last_safe_point, queries, col_avoid_cloud) ==
    IF k > Len(positions)
    THEN [last_safe_point |-> last_safe_point, queries |-> queries]
    ELSE LET pos == positions[k]
             impinging_points == query_ball_point(col_avoid_cloud, pos, SAFE_DISTANCE)
         IN  IF Cardinality(impinging_points) = 0
             THEN arc_walk(positions, k + 1, Some(pos), Append(queries, pos),
                           col_avoid_cloud)
             ELSE [last_safe_point |-> last_safe_point, queries |-> Append(queries, pos)]

\* the same loop without its break
RECURSIVE arc_walk_no_break(_, _, _, _, _)
arc_walk_no_break(positions, k, last_safe_point, queries, col_avoid_cloud) ==
    IF k > Len(positions)
    THEN [last_safe_point |-> last_safe_point, queries |-> queries]
    ELSE LET pos == positions[k]
             impinging_points == query_ball_point(col_avoid_cloud, pos, SAFE_DISTANCE)
         IN  arc_walk_no_break(positions, k + 1,
                               IF Cardinality(impinging_points) = 0
                               THEN Some(pos) ELSE last_safe_point,
                               Append(queries, pos), col_avoid_cloud)

\* get_end_of_arc whose loop has no break
get_end_of_arc_no_break(arc, col_avoid_cloud) ==
    IF ~col_avoid_cloud.is_kdtree
    THEN [raised |-> TRUE, end |-> None, queries |-> <<>>]
    ELSE LET w == arc_walk_no_break(arc.positions, 1, None, <<>>, col_avoid_cloud)
         IN  [raised |-> FALSE, end |-> to_vector(w.last_safe_point), queries |-> w.queries]

\* get_end_of_arc whose isinstance assertion comes after the loop
get_end_of_arc_late_assert(arc, col_avoid_cloud) ==
    LET w == arc_walk(arc.positions, 1, None, <<>>, col_avoid_cloud)
    IN  IF ~col_avoid_cloud.is_kdtree
        THEN [raised |-> TRUE, end |-> None, queries |-> w.queries]
        ELSE [raised |-> FALSE, end |-> to_vector(w.last_safe_point), queries |-> w.queries]

\* get_end_of_arc(arc): raised is the AssertionError of the isinstance check;
\* end is the returned Vector or None; queries the positions it queried
get_end_of_arc(arc, col_avoid_cloud) ==
    IF ~col_avoid_cloud.is_kdtree
    THEN [raised |-> TRUE, end |-> None, queries |-> <<>>]
    ELSE LET w == arc_walk(arc.positions, 1, None, <<>>, col_avoid_cloud)
         IN  [raised |-> FALSE, end |-> to_vector(w.last_safe_point), queries |-> w.queries]

----------------------------------------------------------------------------
(* SimpleColAvoidLogic._find_speed_from_distance *)

_find_speed_from_distance(distance) ==
    LET deceleration_time == sqrt(distance * 2, DECELERATION_RATE)
        speed == Times(deceleration_time, DECELERATION_RATE)
    IN  speed

----------------------------------------------------------------------------
(* SimpleColAvoidLogic.tic *)

ArcRef(i) == [none |-> FALSE, index |-> i]

\* the test of line 83 with >= for >
is_farther_or_equal(end, best) == ~end.none /\ end.y >= best

\* the test of line 83 without its comparison of distances
is_safe_end(end, best) == ~end.none

\* the test of line 83: end is not None and end.y > best_distance
is_farther(end, best) == ~end.none /\ end.y > best

\* the order in which tic's for loop takes the arcs of turn_arcs
scan_order == [k \in 1..NumArcs |-> k - 1]

\* tic's locals before the loop, with the record of the calls it makes
tic_locals ==
    [best_arc |-> None, best_distance |-> 0, raised |-> FALSE, scanned |-> <<>>,
     ends |-> [i \in DOMAIN turn_arcs |-> None],
     queries |-> [i \in DOMAIN turn_arcs |-> <<>>]]

\* the for loop of tic from the k-th arc of the scan on; an AssertionError
\* raised by get_end_of_arc leaves the loop and the method
RECURSIVE tic_loop(_, _, _)
tic_loop(k, st, col_avoid_cloud) ==
    IF k > NumArcs THEN st
    ELSE LET i == scan_order[k]
             r == get_end_of_arc(turn_arcs[i], col_avoid_cloud)
             called == [st EXCEPT !.scanned = Append(@, i),
                                  !.queries[i] = r.queries]
         IN  IF r.raised THEN [called EXCEPT !.raised = TRUE]
             ELSE LET seen == [called EXCEPT !.ends[i] = r.end]
                  IN  IF is_farther(r.end, st.best_distance)
                      THEN tic_loop(k + 1,
                                    [seen EXCEPT !.best_arc = ArcRef(i),
                                                 !.best_distance = r.end.y],
                                    col_avoid_cloud)
                      ELSE tic_loop(k + 1, seen, col_avoid_cloud)

\* lines 86-89 without the reset of the speed
no_viable_arc_keep_speed(speed, turn_radius) == [speed |-> speed, turn_radius |-> 0]

\* lines 86-89: the outputs when best_arc is None
no_viable_arc(speed, turn_radius) == [speed |-> Zero, turn_radius |-> 0]

\* the outputs of a tic whose get_end_of_arc raised: nothing was assigned
aborted_tic(speed, turn_radius) == [speed |-> speed, turn_radius |-> turn_radius]

\* lines 90-92: the outputs when an arc was chosen; _current_turn_radius is
\* not assigned
viable_arc(st, speed, turn_radius) ==
    LET free_space == st.best_distance - SAFE_DISTANCE
    IN  [speed |-> _find_speed_from_distance(free_space), turn_radius |-> turn_radius]

tic_outputs(st, speed, turn_radius) ==
    IF st.raised THEN aborted_tic(speed, turn_radius)
    ELSE IF st.best_arc = None THEN no_viable_arc(speed, turn_radius)
    ELSE viable_arc(st, speed, turn_radius)

\* one call of tic(), with the obstacle index the sensing side has put in
\* DriveData for this tick
tic ==
    \E pm \in PointMaps :
        LET st == tic_loop(1, tic_locals, pm)
            out == tic_outputs(st, _current_speed, _current_turn_radius)
        IN  /\ col_avoid_pointmap' = pm
            /\ prior_speed' = _current_speed
            /\ prior_turn_radius' = _current_turn_radius
            /\ _current_speed' = out.speed
            /\ _current_turn_radius' = out.turn_radius
            /\ tic_raised' = st.raised
            /\ best_arc' = st.best_arc
            /\ best_distance' = st.best_distance
            /\ scanned' = st.scanned
            /\ arc_ends' = st.ends
            /\ arc_queries' = st.queries
            /\ op' = "tic"
            /\ ret' = [of |-> "nothing"]
            /\ UNCHANGED <<last_radius_index, gen_vars>>

----------------------------------------------------------------------------
(* The read accessors. *)

\* a target_speed that clears the cache it returns
target_speed_clearing ==
    /\ ret' = [of |-> "target_speed", value |-> _current_speed]
    /\ op' = "target_speed"
    /\ _current_speed' = Zero
    /\ UNCHANGED <<col_avoid_pointmap, last_radius_index, _current_turn_radius,
                   tic_raised, best_arc, best_distance, scanned, arc_ends,
                   arc_queries, prior_speed, prior_turn_radius, gen_vars>>

target_speed ==
    /\ ret' = [of |-> "target_speed", value |-> _current_speed]
    /\ op' = "target_speed"
    /\ UNCHANGED <<col_avoid_pointmap, last_radius_index, _current_turn_radius,
                   _current_speed, tic_raised, best_arc, best_distance, scanned,
                   arc_ends, arc_queries, prior_speed, prior_turn_radius, gen_vars>>

target_turn_radius ==
    /\ ret' = [of |-> "target_turn_radius", value |-> _current_turn_radius]
    /\ op' = "target_turn_radius"
    /\ UNCHANGED <<col_avoid_pointmap, last_radius_index, _current_turn_radius,
                   _current_speed, tic_raised, best_arc, best_distance, scanned,
                   arc_ends, arc_queries, prior_speed, prior_turn_radius, gen_vars>>

----------------------------------------------------------------------------
(* expanding_indices: one step is one pass of its while loop. *)

\* lines 220-223
next_i(i) == IF i >= 0 THEN (i * (-1)) - 1 ELSE (i * (-1)) + 1

in_bounds == gen_lower <= gen_i /\ gen_i < gen_upper

\* line 216-217, then 220-223
gen_yield ==
    /\ ~gen_done
    /\ in_bounds
    /\ gen_out' = Append(gen_out, gen_i + gen_start)
    /\ gen_i' = next_i(gen_i)
    /\ UNCHANGED <<gen_start, gen_lower, gen_upper, gen_done, logic_vars>>

\* line 218-219
gen_break ==
    /\ ~gen_done
    /\ ~in_bounds
    /\ Abs(gen_i) > Max(Abs(gen_lower), Abs(gen_upper))
    /\ gen_done' = TRUE
    /\ UNCHANGED <<gen_start, gen_lower, gen_upper, gen_i, gen_out, logic_vars>>

\* neither branch taken, then 220-223
gen_skip ==
    /\ ~gen_done
    /\ ~in_bounds
    /\ ~(Abs(gen_i) > Max(Abs(gen_lower), Abs(gen_upper)))
    /\ gen_i' = next_i(gen_i)
    /\ UNCHANGED <<gen_start, gen_lower, gen_upper, gen_out, gen_done, logic_vars>>

----------------------------------------------------------------------------
(* Specifications. *)

\* SimpleColAvoidLogic.__init__
InitLogic ==
    /\ last_radius_index = NumArcs \div 2
    /\ _current_turn_radius = 0
    /\ _current_speed = Zero
    /\ col_avoid_pointmap = [is_kdtree |-> FALSE, points |-> {}]
    /\ op = "__init__"
    /\ tic_raised = FALSE
    /\ best_arc = None
    /\ best_distance = 0
    /\ scanned = <<>>
    /\ arc_ends = [i \in DOMAIN turn_arcs |-> None]
    /\ arc_queries = [i \in DOMAIN turn_arcs |-> <<>>]
    /\ prior_speed = Zero
    /\ prior_turn_radius = 0
    /\ ret = [of |-> "nothing"]

\* no generator exists
NoGen ==
    /\ gen_start = 0 /\ gen_lower = 0 /\ gen_upper = 0
    /\ gen_i = 0 /\ gen_out = <<>> /\ gen_done = TRUE

\* a call expanding_indices(start_index, lower_bound, upper_bound)
InitGen ==
    /\ gen_start \in 0..MaxStart
    /\ gen_lower \in -MaxBound..0
    /\ gen_upper \in 0..MaxBound
    /\ gen_i = 0
    /\ gen_out = <<>>
    /\ gen_done = FALSE

Init == InitLogic /\ NoGen

Next == tic \/ target_speed \/ target_turn_radius

Spec == Init /\ [][Next]_vars

InitG == InitLogic /\ InitGen

NextG == gen_yield \/ gen_break \/ gen_skip

SpecGen == InitG /\ [][NextG]_vars

----------------------------------------------------------------------------
(* Vocabulary of the properties. *)

\* the last operation was a tic that ran to its end
TicCompleted == op = "tic" /\ ~tic_raised

\* the last tic chose an arc
ArcSelected == TicCompleted /\ ~best_arc.none

\* no point of the cloud lies within SAFE_DISTANCE of pos
IsSafe(pos, tree) ==
    \A p \in tree.points :
        (p[1] - pos[1]) * (p[1] - pos[1]) + (p[2] - pos[2]) * (p[2] - pos[2])
            > SAFE_DISTANCE * SAFE_DISTANCE

\* the length of the longest prefix of an arc's positions that are all safe
SafePrefixLen(arc, tree) ==
    CHOOSE k \in 0..Len(arc.positions) :
        /\ \A j \in 1..k : IsSafe(arc.positions[j], tree)
        /\ k < Len(arc.positions) => ~IsSafe(arc.positions[k + 1], tree)

\* the order s, s+1, s-1, s+2, s-2, ... over the indices lo..hi
RECURSIVE Outward(_, _, _, _)
Outward(s, lo, hi, k) ==
    IF s + k > hi /\ s - k < lo THEN <<>>
    ELSE (IF s + k <= hi THEN <<s + k>> ELSE <<>>)
         \o (IF s - k >= lo THEN <<s - k>> ELSE <<>>)
         \o Outward(s, lo, hi, k + 1)

IntendedOrder(s, lo, hi) == <<s>> \o Outward(s, lo, hi, 1)

\* the place of arc index i in the scan of the last tic
ScanPlace(i) == CHOOSE k \in 1..Len(scanned) : scanned[k] = i

----------------------------------------------------------------------------
(* The claims. *)

\* C1: after a tic that found a viable arc, target_turn_radius is the turn
\* radius of the selected arc and target_speed is the speed bound computed
\* from that arc's forward distance.
C1_ViableArcOutputs ==
    (TicCompleted /\ \E i \in DOMAIN turn_arcs : ~arc_ends[i].none /\ arc_ends[i].y > 0)
        => /\ ~best_arc.none
           /\ _current_turn_radius = turn_arcs[best_arc.index].radius
           /\ _current_speed
                = _find_speed_from_distance(arc_ends[best_arc.index].y - SAFE_DISTANCE)

\* C2: whatever the outputs were before, a tic in which every arc evaluates
\* to no safe point leaves target_speed = 0 and target_turn_radius = 0.
C2_NoSafePointStops ==
    (TicCompleted /\ \A i \in DOMAIN turn_arcs : arc_ends[i].none)
        => _current_speed = Zero /\ _current_turn_radius = 0

\* C2 witness: every arc evaluated to None in a tic that began with a
\* non-zero cached speed
C2_Witness ==
    /\ TicCompleted
    /\ \A i \in DOMAIN turn_arcs : arc_ends[i].none
    /\ prior_speed # Zero
    /\ _current_speed = Zero

\* C3: after a tic that selects an arc with forward distance D, target_speed
\* is a non-negative number whose square is
\* 2 * DECELERATION_RATE * max(D - SAFE_DISTANCE, 0); never NaN.
C3_SpeedSquare ==
    ArcSelected
        => /\ ~_current_speed.nan
           /\ _current_speed.num
                = 2 * DECELERATION_RATE * Max(best_distance - SAFE_DISTANCE, 0)
                    * _current_speed.den

\* C4: every tic evaluates the arcs in the outward-expanding order seeded with
\* the arc index the previous tic selected (the middle index at first): the
\* seed first, then increasing index distance, every arc once.
C4_ScanFromLastArc ==
    [][(op' = "tic" /\ ~tic_raised')
         => scanned' = IntendedOrder(IF best_arc.none THEN last_radius_index
                                     ELSE best_arc.index,
                                     0, NumArcs - 1)]_vars

\* C5: expanding_indices(s, lower, upper) with lower <= 0 <= upper yields
\* each index of s+lower .. s+upper exactly once, and nothing else, in the
\* order s, s+1, s-1, s+2, s-2, ...
C5_ExpandingIndices ==
    gen_done => gen_out = IntendedOrder(gen_start, gen_start + gen_lower,
                                        gen_start + gen_upper)

\* C6: get_end_of_arc returns the last position of the longest all-safe
\* prefix of the arc's positions (None when the first position is unsafe, the
\* farthest position when all are safe), and queries no position after the
\* first unsafe one.
C6_EndOfSafePrefix ==
    TicCompleted =>
        \A i \in DOMAIN turn_arcs :
            LET arc == turn_arcs[i]
                k == SafePrefixLen(arc, col_avoid_pointmap)
                n == Len(arc.positions)
            IN  /\ arc_ends[i] = IF k = 0 THEN None ELSE Vector(arc.positions[k])
                /\ arc_queries[i] = SubSeq(arc.positions, 1, IF k < n THEN k + 1 ELSE n)

\* C6 witness: an arc whose second position is unsafe and whose third
\* position would test clear; its first position was returned
C6_Witness ==
    /\ TicCompleted
    /\ \E i \in DOMAIN turn_arcs :
          /\ IsSafe(turn_arcs[i].positions[1], col_avoid_pointmap)
          /\ ~IsSafe(turn_arcs[i].positions[2], col_avoid_pointmap)
          /\ IsSafe(turn_arcs[i].positions[3], col_avoid_pointmap)
          /\ arc_ends[i] = Vector(turn_arcs[i].positions[1])
          /\ Len(arc_queries[i]) = 2

\* C7: the forward distance of the arc tic selects, which the speed is
\* computed from, is at least the forward coordinate of the safe endpoint of
\* every arc that has one.
C7_Maximality ==
    ArcSelected
        => /\ best_distance = arc_ends[best_arc.index].y
           /\ _current_speed = _find_speed_from_distance(best_distance - SAFE_DISTANCE)
           /\ \A i \in DOMAIN turn_arcs :
                 ~arc_ends[i].none => best_distance >= arc_ends[i].y

\* C7 witness: three safe endpoints at three different forward distances, the
\* farthest on the arc of index 1, which was selected
C7_Witness ==
    /\ ArcSelected
    /\ \A i \in DOMAIN turn_arcs : ~arc_ends[i].none
    /\ arc_ends[0].y < arc_ends[1].y
    /\ arc_ends[2].y < arc_ends[0].y
    /\ best_arc.index = 1

\* C8: a tic whose obstacle index is no KDTree ends in the assertion error
\* before any range query, and leaves the cached outputs as they were.
C8_NotKDTreeAborts ==
    (op = "tic" /\ ~col_avoid_pointmap.is_kdtree)
        => /\ tic_raised
           /\ \A i \in DOMAIN turn_arcs : arc_queries[i] = <<>>
           /\ _current_speed = prior_speed
           /\ _current_turn_radius = prior_turn_radius

\* C8 witness: an aborted tic that began, and ended, with a non-zero speed
C8_Witness ==
    /\ op = "tic"
    /\ ~col_avoid_pointmap.is_kdtree
    /\ tic_raised
    /\ prior_speed # Zero
    /\ _current_speed = prior_speed

\* C9: reading target_speed or target_turn_radius changes no logic state,
\* issues no query, and returns the cached value; the cached values are 0 and
\* 0 at first and change in no step but a tic, so a read returns what the
\* most recent tic left and repeated reads agree.
C9_ReadsArePure ==
    /\ _current_speed = Zero /\ _current_turn_radius = 0
    /\ [][/\ op' \in {"target_speed", "target_turn_radius"}
             => /\ UNCHANGED <<_current_speed, _current_turn_radius,
                               last_radius_index, col_avoid_pointmap, arc_queries,
                               arc_ends, scanned, best_arc, best_distance,
                               tic_raised>>
                /\ ret'.value = IF op' = "target_speed" THEN _current_speed
                                ELSE _current_turn_radius
          /\ (_current_speed' # _current_speed
              \/ _current_turn_radius' # _current_turn_radius) => op' = "tic"]_vars

\* C9 witness: a read of target_speed returned a non-zero cached speed
C9_Witness ==
    /\ op = "target_speed"
    /\ ret.of = "target_speed"
    /\ ret.value = _current_speed
    /\ _current_speed # Zero

\* C10: among the arcs that share the greatest safe forward distance, the one
\* scanned first in the tic is the one selected.
C10_FirstScannedWinsTie ==
    ArcSelected
        => \A i \in DOMAIN turn_arcs :
              (~arc_ends[i].none /\ arc_ends[i].y = arc_ends[best_arc.index].y)
                  => ScanPlace(best_arc.index) <= ScanPlace(i)

\* C10 witness: the arcs of index 1 and 2 share the greatest distance, the arc
\* of index 0 falls short of it, and the arc of index 1 was selected
C10_Witness ==
    /\ ArcSelected
    /\ best_arc.index = 1
    /\ ~arc_ends[2].none
    /\ arc_ends[2].y = arc_ends[1].y
    /\ ~arc_ends[0].none
    /\ arc_ends[0].y < arc_ends[1].y

====
